---- MODULE Spec2Model ----
(***************************************************************************)
(* A model of package tmx (azul3d-legacy/tmx): the tile compiler Load of   *)
(* gfx.go with its quad emitter appendCard, and the polygon/polyline point *)
(* parser xmlPolyset.toPoints.                                             *)
(*                                                                         *)
(* Arithmetic is exact.  Horizontal coordinates (X and Z of a vertex) are  *)
(* kept in HALF pixels, so that float32(tileset.Width) / 2.0 is a whole    *)
(* number; the vertical coordinate (Y) is kept in units of 0.000001, so    *)
(* that the default offsets 0.001 and 0.000001 are 1000 and 1.  The        *)
(* rounding of float64 and float32 is not modelled.  A texture coordinate  *)
(* u (v) of an atlas of w x h pixels is kept as its numerator over the     *)
(* common denominator w * h.                                               *)
(***************************************************************************)
EXTENDS Integers, Sequences, FiniteSets, TLC

VARIABLES
    m,            \* the *Map handed to Load
    c,            \* the *Config handed to Load: << >> is nil, <<r>> points to r
    tsImages,     \* the tileset images handed to Load: base filename -> bounds
    pc,           \* where Load is
    cfg,          \* Load's c after the nil check
    li,           \* index of the layer the range loop is at (1-based)
    x, y,         \* the loop variables of the cell loops
    layerOffset,  \* Load's layerOffset
    tileOffset,   \* Load's tileOffset
    texObjects,   \* the current layer's texObjects: base filename -> object
    layers,       \* Load's result: layer name -> texObjects
    placed,       \* history: one record per tile placed, in order
    data,         \* xmlPolyset.Data handed to toPoints
    points,       \* what toPoints returned
    ppc           \* where toPoints is

vars == <<m, c, tsImages, pc, cfg, li, x, y, layerOffset, tileOffset,
          texObjects, layers, placed, data, points, ppc>>

loadVars == <<m, c, tsImages, pc, cfg, li, x, y, layerOffset, tileOffset,
              texObjects, layers, placed>>

pointVars == <<data, points, ppc>>

(***************************************************************************)
(* Bounds of the model.                                                    *)
(***************************************************************************)
MaxLayers == 2
MaxTiles == 3

-----------------------------------------------------------------------------
(***************************************************************************)
(* lmath: 4x4 matrices, row vectors (v * M), as gfx.go uses them.          *)
(***************************************************************************)
Mat4Identity ==
    << <<1, 0, 0, 0>>, <<0, 1, 0, 0>>, <<0, 0, 1, 0>>, <<0, 0, 0, 1>> >>

\* a.Mul(b): the matrix product a * b.
MulEntry(a, b, i, j) ==
    a[i][1] * b[1][j] + a[i][2] * b[2][j] + a[i][3] * b[3][j] + a[i][4] * b[4][j]

MulRow(a, b, i) ==
    << MulEntry(a, b, i, 1), MulEntry(a, b, i, 2), MulEntry(a, b, i, 3), MulEntry(a, b, i, 4) >>

Mul(a, b) == << MulRow(a, b, 1), MulRow(a, b, 2), MulRow(a, b, 3), MulRow(a, b, 4) >>

\* v.TransformMat4(b): the point v, as a row vector, times b.
TransformMat4(v, b) ==
    << v[1] * b[1][1] + v[2] * b[2][1] + v[3] * b[3][1] + b[4][1],
       v[1] * b[1][2] + v[2] * b[2][2] + v[3] * b[3][2] + b[4][2],
       v[1] * b[1][3] + v[2] * b[2][3] + v[3] * b[3][3] + b[4][3] >>

\* lmath.Mat4FromTranslation(t): the translation sits in the last row.
Mat4FromTranslation(t) ==
    << <<1, 0, 0, 0>>, <<0, 1, 0, 0>>, <<0, 0, 1, 0>>, <<t[1], t[2], t[3], 1>> >>

\* sin and cos of q quarter turns (q * 90 degrees), exactly.
Sin(q) == CASE q % 4 = 0 -> 0 [] q % 4 = 1 -> 1 [] q % 4 = 2 -> 0 [] OTHER -> -1
Cos(q) == CASE q % 4 = 0 -> 1 [] q % 4 = 1 -> 0 [] q % 4 = 2 -> -1 [] OTHER -> 0

\* lmath.Mat4FromAxisAngle(axis, q * 90 degrees, CoordSysZUpRight) for a unit
\* axis: the coordinate system is right handed, so the angle is kept as it is.
Mat4FromAxisAngle(axis, q) ==
    LET s == Sin(q)
        co == Cos(q)
        t == 1 - co
        t0 == t * axis[1]
        t1 == t * axis[2]
        t2 == t * axis[3]
        s0 == s * axis[1]
        s1 == s * axis[2]
        s2 == s * axis[3]
    IN  << << t0 * axis[1] + co, t0 * axis[2] + s2, t0 * axis[3] - s1, 0 >>,
           << t1 * axis[1] - s2, t1 * axis[2] + co, t1 * axis[3] + s0, 0 >>,
           << t2 * axis[1] + s1, t2 * axis[2] - s0, t2 * axis[3] + co, 0 >>,
           << 0, 0, 0, 1 >> >>

\* The four primitives init() sets up.
cw90 == Mat4FromAxisAngle(<<0, 1, 0>>, 1)
cwn90 == Mat4FromAxisAngle(<<0, 1, 0>>, 3)
horizFlip == Mat4FromAxisAngle(<<0, 0, 1>>, 2)
vertFlip == Mat4FromAxisAngle(<<1, 0, 0>>, 2)

-----------------------------------------------------------------------------
(***************************************************************************)
(* Global tile ids.  A gid is a uint32 whose three top bits are the flip   *)
(* flags; it is kept as the record of its bit fields: idx is the low 29    *)
(* bits, and gid & FLIPPED_x_FLAG > 0 is the field x.                      *)
(***************************************************************************)
FlagSets == [diag : BOOLEAN, horiz : BOOLEAN, vert : BOOLEAN]

MakeGid(idx, f) == [idx |-> idx, diag |-> f.diag, horiz |-> f.horiz, vert |-> f.vert]

\* The zero value a Go map lookup yields for a key it does not hold.
ZeroGid == [idx |-> 0, diag |-> FALSE, horiz |-> FALSE, vert |-> FALSE]

FlagsOf(gid) == [diag |-> gid.diag, horiz |-> gid.horiz, vert |-> gid.vert]

NoFlags == [diag |-> FALSE, horiz |-> FALSE, vert |-> FALSE]

\* Base gone wrong: the first element of the path instead of the last.
BaseFirstElement(path) == IF Len(path) = 0 THEN "." ELSE path[1]

\* filepath.Base of a path kept as the sequence of its elements.
Base(path) == IF Len(path) = 0 THEN "." ELSE path[Len(path)]

\* Map.FindTileset: the index of the tileset with the greatest Firstgid that
\* does not exceed the gid without its flags; 0 (nil) when there is none.
RECURSIVE FindFrom(_, _, _)
FindFrom(tilesets, i, idx) ==
    IF i = 0 THEN 0
    ELSE IF tilesets[i].Firstgid <= idx THEN i
    ELSE FindFrom(tilesets, i - 1, idx)

FindTileset(map, gid) == FindFrom(map.Tilesets, Len(map.Tilesets), gid.idx)

\* Map.TilesetRect: the pixel rectangle of the gid's tile in an atlas of
\* width x height pixels.
TilesetRect(ts, width, height, gid) ==
    LET local == gid.idx - ts.Firstgid
        perRow == (width - 2 * ts.Margin + ts.Spacing) \div (ts.Width + ts.Spacing)
        col == local % perRow
        row == local \div perRow
        minX == ts.Margin + col * (ts.Width + ts.Spacing)
        minY == ts.Margin + row * (ts.Height + ts.Spacing)
    IN  [MinX |-> minX, MinY |-> minY, MaxX |-> minX + ts.Width, MaxY |-> minY + ts.Height]

-----------------------------------------------------------------------------
(***************************************************************************)
(* appendCard.  l, r, b, t are in half pixels; rect is the tile's pixel    *)
(* rectangle and tex the bounds of the atlas.                              *)
(***************************************************************************)
\* The denominator of the inset of the V coordinates: halfTexUnitY := 1.0 / w.
HalfTexUnitYDen(w, h) == w

CardVertices(l, r, b, t, depth) ==
    << <<l, depth, t>>, <<l, depth, b>>, <<r, depth, b>>,
       <<l, depth, t>>, <<r, depth, b>>, <<r, depth, t>> >>

\* The four texture coordinates, as numerators over w * h.
CardUV(rect, tex) ==
    LET w == tex.Dx
        h == tex.Dy
        yden == HalfTexUnitYDen(w, h)
    IN  [u0 |-> rect.MinX * h + h,
         u1 |-> rect.MaxX * h - h,
         v0 |-> rect.MinY * w + (w * h) \div yden,
         v1 |-> rect.MaxY * w - (w * h) \div yden]

CardTexCoords(rect, tex) ==
    LET uv == CardUV(rect, tex)
    IN  << <<uv.u0, uv.v0>>, <<uv.u0, uv.v1>>, <<uv.u1, uv.v1>>,
           <<uv.u0, uv.v0>>, <<uv.u1, uv.v1>>, <<uv.u1, uv.v0>> >>

appendCard(mesh, l, r, b, t, depth, rect, tex) ==
    [Vertices |-> mesh.Vertices \o CardVertices(l, r, b, t, depth),
     TexCoords |-> mesh.TexCoords \o CardTexCoords(rect, tex)]

-----------------------------------------------------------------------------
(***************************************************************************)
(* Load.                                                                   *)
(***************************************************************************)
\* The defaults Load uses for a nil configuration, in units of 0.000001.
DefaultLayerOffset == 1000
DefaultTileOffset == 1

\* The lookup gone wrong: hasTile is not looked at.
HasTileIgnored(layer, cx, cy) == TRUE

\* gid, hasTile := layer.Tiles[Coord{x, y}]
HasTile(layer, cx, cy) == <<cx, cy>> \in DOMAIN layer.Tiles

TileAt(layer, cx, cy) ==
    IF <<cx, cy>> \in DOMAIN layer.Tiles THEN layer.Tiles[<<cx, cy>>] ELSE ZeroGid

\* rgba, haveTilesetImage := tsImages[tsImage]
HaveTilesetImage(images, tsImage) == tsImage \in DOMAIN images

\* The flip gone wrong: the two products of the diagonal-only case swapped.
FlipDiagonalSwapped(gid) ==
    LET flip == Mat4Identity
    IN  IF gid.diag
        THEN IF gid.horiz /\ gid.vert THEN Mul(horizFlip, Mul(cw90, flip))
             ELSE IF gid.horiz THEN Mul(cw90, flip)
             ELSE IF gid.vert THEN Mul(cwn90, flip)
             ELSE Mul(horizFlip, Mul(cw90, flip))
        ELSE LET f1 == IF gid.horiz THEN Mul(horizFlip, flip) ELSE flip
             IN  IF gid.vert THEN Mul(vertFlip, f1) ELSE f1

\* The flip of a gid: the case analysis on its three flags.
Flip(gid) ==
    LET flip == Mat4Identity
    IN  IF gid.diag
        THEN IF gid.horiz /\ gid.vert THEN Mul(horizFlip, Mul(cw90, flip))
             ELSE IF gid.horiz THEN Mul(cw90, flip)
             ELSE IF gid.vert THEN Mul(cwn90, flip)
             ELSE Mul(cw90, Mul(horizFlip, flip))
        ELSE LET f1 == IF gid.horiz THEN Mul(horizFlip, flip) ELSE flip
             IN  IF gid.vert THEN Mul(vertFlip, f1) ELSE f1

\* Move gone wrong: the tile offset is left out of the vertical coordinate.
MoveWithoutTileOffset(map, ts, cx, cy, lo, to) ==
    Mat4FromTranslation(<< 2 * (cx * map.TileWidth) + ts.Width,
                           lo,
                           2 * ((map.Height - cy) * map.TileHeight) - ts.Height >>)

\* The translation that moves the card of cell (cx, cy) into place.
Move(map, ts, cx, cy, lo, to) ==
    Mat4FromTranslation(<< 2 * (cx * map.TileWidth) + ts.Width,
                           lo + to,
                           2 * ((map.Height - cy) * map.TileHeight) - ts.Height >>)

\* trans gone wrong: move.Mul(flip), the card is moved and then flipped.
TransMoveFirst(flip, move) == Mul(move, flip)

\* The result gone wrong: a layer without a batch gets no entry.
PutLayerUnlessEmpty(result, name, objs) ==
    IF DOMAIN objs = {} THEN result
    ELSE [k \in DOMAIN result \cup {name} |-> IF k = name THEN objs ELSE result[k]]

\* The transformation gone wrong: it is applied from the first vertex on.
TransformFromFirst(cardStart) == 0

\* trans := flip.Mul(move)
Trans(flip, move) == Mul(flip, move)

\* layers[layer.Name] = texObjects
PutLayer(result, name, objs) ==
    [k \in DOMAIN result \cup {name} |-> IF k = name THEN objs ELSE result[k]]

\* The first vertex the transformation is applied to: cardStart (0-based).
TransformFrom(cardStart) == cardStart

\* The vertices after verts[cardStart:cardEnd] went through trans.
ApplyTrans(verts, cardStart, cardEnd, trans) ==
    [i \in 1..Len(verts) |->
        IF i > TransformFrom(cardStart) /\ i <= cardEnd
        THEN TransformMat4(verts[i], trans)
        ELSE verts[i]]

NewObject(rgba) ==
    [Texture |-> rgba, FaceCulling |-> "NoFaceCulling", AlphaMode |-> "AlphaToCoverage",
     Mesh |-> [Vertices |-> <<>>, TexCoords |-> <<>>]]

\* The loop variables after the cell (x, y): y is the inner loop.
NextCell(map, cx, cy) ==
    IF cy + 1 < map.Height THEN <<cx, cy + 1>> ELSE <<cx + 1, 0>>

CurLayer == m.Layers[li]

AtCell == pc = "cells" /\ x < m.Width

\* Lines 164-174: the nil check of c, the empty result, layerOffset = 0.
LoadBegin ==
    /\ pc = "start"
    /\ cfg' = IF c = << >>
              THEN [LayerOffset |-> DefaultLayerOffset, TileOffset |-> DefaultTileOffset]
              ELSE c[1]
    /\ layers' = << >>
    /\ layerOffset' = 0
    /\ li' = 1
    /\ pc' = "layers"
    /\ UNCHANGED <<m, c, tsImages, x, y, tileOffset, texObjects, placed>>
    /\ UNCHANGED pointVars

\* Lines 176-181: the next layer of m.Layers: fresh texObjects, tileOffset = 0.
LayerBegin ==
    /\ pc = "layers"
    /\ li <= Len(m.Layers)
    /\ texObjects' = << >>
    /\ tileOffset' = 0
    /\ x' = 0
    /\ y' = 0
    /\ pc' = "cells"
    /\ UNCHANGED <<m, c, tsImages, cfg, li, layerOffset, layers, placed>>
    /\ UNCHANGED pointVars

\* Lines 183-186: the cell holds no tile.
CellEmpty ==
    /\ AtCell
    /\ ~HasTile(CurLayer, x, y)
    /\ x' = NextCell(m, x, y)[1]
    /\ y' = NextCell(m, x, y)[2]
    /\ UNCHANGED <<m, c, tsImages, pc, cfg, li, layerOffset, tileOffset,
                   texObjects, layers, placed>>
    /\ UNCHANGED pointVars

\* Lines 188-197: FindTileset, and the lookup of the tileset's image.  A gid
\* that no tileset owns makes FindTileset return nil, and tileset.Image panics;
\* a tile whose tileset's image was not given is left out.
CellOmit ==
    /\ AtCell
    /\ HasTile(CurLayer, x, y)
    /\ LET gid == TileAt(CurLayer, x, y)
           ti == FindTileset(m, gid)
       IN  IF ti = 0
           THEN /\ pc' = "panic"
                /\ UNCHANGED <<x, y>>
           ELSE /\ ~HaveTilesetImage(tsImages, Base(m.Tilesets[ti].Source))
                /\ x' = NextCell(m, x, y)[1]
                /\ y' = NextCell(m, x, y)[2]
                /\ pc' = pc
    /\ UNCHANGED <<m, c, tsImages, cfg, li, layerOffset, tileOffset,
                   texObjects, layers, placed>>
    /\ UNCHANGED pointVars

\* Lines 188-279: the tile is placed.
CellPlace ==
    /\ AtCell
    /\ HasTile(CurLayer, x, y)
    /\ FindTileset(m, TileAt(CurLayer, x, y)) # 0
    /\ LET gid == TileAt(CurLayer, x, y)
           tileset == m.Tilesets[FindTileset(m, gid)]
           tsImage == Base(tileset.Source)
       IN  /\ HaveTilesetImage(tsImages, tsImage)
           /\ LET rgba == tsImages[tsImage]
                  obj == IF tsImage \in DOMAIN texObjects
                         THEN texObjects[tsImage]
                         ELSE NewObject(rgba)
                  r == TilesetRect(tileset, rgba.Dx, rgba.Dy, gid)
                  cardStart == Len(obj.Mesh.Vertices)
                  carded == appendCard(obj.Mesh, -tileset.Width, tileset.Width,
                                       -tileset.Height, tileset.Height, 0, r, rgba)
                  cardEnd == Len(carded.Vertices)
                  trans == Trans(Flip(gid), Move(m, tileset, x, y, layerOffset, tileOffset))
                  verts == ApplyTrans(carded.Vertices, cardStart, cardEnd, trans)
                  mesh == [carded EXCEPT !.Vertices = verts]
              IN  /\ texObjects' =
                        [k \in DOMAIN texObjects \cup {tsImage} |->
                            IF k = tsImage THEN [obj EXCEPT !.Mesh = mesh]
                            ELSE texObjects[k]]
                  /\ placed' = Append(placed,
                        [layer |-> li, cx |-> x, cy |-> y, gid |-> gid, key |-> tsImage,
                         ts |-> FindTileset(m, gid), rect |-> r,
                         verts |-> SubSeq(verts, cardStart + 1, cardEnd),
                         uvs |-> SubSeq(mesh.TexCoords, Len(mesh.TexCoords) - 5,
                                        Len(mesh.TexCoords))])
    /\ tileOffset' = tileOffset - cfg.TileOffset
    /\ x' = NextCell(m, x, y)[1]
    /\ y' = NextCell(m, x, y)[2]
    /\ UNCHANGED <<m, c, tsImages, pc, cfg, li, layerOffset, layers>>
    /\ UNCHANGED pointVars

\* Lines 283-287: the layer's objects go into the result under the layer's
\* name, and layerOffset goes down.
LayerEnd ==
    /\ pc = "cells"
    /\ x >= m.Width
    /\ layers' = PutLayer(layers, CurLayer.Name, texObjects)
    /\ layerOffset' = layerOffset - cfg.LayerOffset
    /\ li' = li + 1
    /\ pc' = "layers"
    /\ UNCHANGED <<m, c, tsImages, cfg, x, y, tileOffset, texObjects, placed>>
    /\ UNCHANGED pointVars

\* Line 318: return layers.
LoadReturn ==
    /\ pc = "layers"
    /\ li > Len(m.Layers)
    /\ pc' = "done"
    /\ UNCHANGED <<m, c, tsImages, cfg, li, x, y, layerOffset, tileOffset,
                   texObjects, layers, placed>>
    /\ UNCHANGED pointVars

-----------------------------------------------------------------------------
(***************************************************************************)
(* The maps, configurations and images Load is run on.                     *)
(***************************************************************************)
\* Two tilesets: the first of tiles as large as the map's, its atlas 4 x 2
\* pixels (gids 1, 2); the second of tiles twice as wide, its atlas 4 x 4
\* pixels (gids 3, 4).
Tileset1 ==
    [Firstgid |-> 1, Width |-> 2, Height |-> 2, Margin |-> 0, Spacing |-> 0,
     Source |-> <<"..", "tiles", "t1.png">>]
Tileset2 ==
    [Firstgid |-> 3, Width |-> 4, Height |-> 2, Margin |-> 0, Spacing |-> 0,
     Source |-> <<"t2.png">>]

AllImages == ("t1.png" :> [Dx |-> 4, Dy |-> 2]) @@ ("t2.png" :> [Dx |-> 4, Dy |-> 4])

ImageSets == { [k \in D |-> AllImages[k]] : D \in {{}, {"t1.png"}, {"t1.png", "t2.png"}} }

Configs == { << >>, << [LayerOffset |-> 2, TileOffset |-> 3] >> }

\* The layers' names, <<"layer", i>> standing for the string "layer<i>": the
\* layers bear the names layer1, layer2, ..., or (dup) the last again bears
\* layer1.
Names(n, dup) ==
    [i \in 1..n |-> IF dup /\ i = n THEN <<"layer", 1>> ELSE <<"layer", i>>]

Cells(w, h) == (0..(w - 1)) \X (0..(h - 1))

\* The gid of a cell that holds a tile: the second tile of the first tileset
\* (gid 2) and the second tile of the second (gid 4) alternate, like the
\* squares of a chessboard; every tile of a map bears the flags f.
CellGid(i, cell, f) == MakeGid(IF (i + cell[1] + cell[2]) % 2 = 1 THEN 2 ELSE 4, f)

\* The cells that hold a tile: for each layer any cells of the grid, at most
\* MaxTiles in all.
RECURSIVE TileCount(_)
TileCount(ds) == IF Len(ds) = 0 THEN 0 ELSE Cardinality(Head(ds)) + TileCount(Tail(ds))

Occupancies(w, h) ==
    UNION { { ds \in [1..n -> SUBSET Cells(w, h)] : TileCount(ds) <= MaxTiles } :
              n \in 0..MaxLayers }

MapOf(w, h, ds, names, f, tilesets) ==
    [Width |-> w, Height |-> h, TileWidth |-> 2, TileHeight |-> 2,
     Layers |-> [i \in 1..Len(ds) |->
                    [Name |-> names[i],
                     Tiles |-> [cell \in ds[i] |-> CellGid(i, cell, f)]]],
     Tilesets |-> tilesets]

\* The maps whose tiles bear the flags f; a map without tilesets holds no tile.
Maps(f, dup) ==
    { MapOf(2, 2, ds, Names(Len(ds), dup), f, <<Tileset1, Tileset2>>) :
        ds \in Occupancies(2, 2) }
    \cup
    { MapOf(2, 2, ds, Names(Len(ds), dup), f, << >>) :
        ds \in { d \in Occupancies(2, 2) : TileCount(d) = 0 } }

\* What Load is run on.  The plain setting is unflipped tiles, every image
\* given, a nil configuration and layers of different names; a setting
\* departs from it in at most one of the four.
Departures(s) ==
    (IF s.f = NoFlags THEN 0 ELSE 1)
    + (IF DOMAIN s.images = DOMAIN AllImages THEN 0 ELSE 1)
    + (IF s.c = << >> THEN 0 ELSE 1)
    + (IF s.dup THEN 1 ELSE 0)

Settings ==
    { s \in [f : FlagSets, images : ImageSets, c : Configs, dup : BOOLEAN] :
        Departures(s) <= 1 }

InitLoad ==
    /\ \E s \in Settings :
        /\ m \in Maps(s.f, s.dup)
        /\ c = s.c
        /\ tsImages = s.images
    /\ pc = "start"
    /\ cfg = [LayerOffset |-> 0, TileOffset |-> 0]
    /\ li = 0
    /\ x = 0
    /\ y = 0
    /\ layerOffset = 0
    /\ tileOffset = 0
    /\ texObjects = << >>
    /\ layers = << >>
    /\ placed = << >>

-----------------------------------------------------------------------------
(***************************************************************************)
(* xmlPolyset.toPoints.  A string is the sequence of its characters.       *)
(***************************************************************************)
MaxLen == 7

IsSpace(ch) == ch \in {" ", "\t"}

\* strings.Split(s, sep) for a separator of one character.
RECURSIVE SplitFrom(_, _, _, _)
SplitFrom(s, sep, i, cur) ==
    IF i > Len(s) THEN <<cur>>
    ELSE IF s[i] = sep THEN <<cur>> \o SplitFrom(s, sep, i + 1, << >>)
    ELSE SplitFrom(s, sep, i + 1, Append(cur, s[i]))

Split(s, sep) == SplitFrom(s, sep, 1, << >>)

\* strings.TrimSpace
RECURSIVE TrimLeft(_)
TrimLeft(s) == IF Len(s) > 0 /\ IsSpace(s[1]) THEN TrimLeft(Tail(s)) ELSE s

RECURSIVE TrimRight(_)
TrimRight(s) ==
    IF Len(s) > 0 /\ IsSpace(s[Len(s)]) THEN TrimRight(SubSeq(s, 1, Len(s) - 1)) ELSE s

TrimSpace(s) == TrimRight(TrimLeft(s))

DigitChars == {"0", "1", "2", "3", "4", "5", "6", "7", "8", "9"}

DigitVal(ch) ==
    CASE ch = "0" -> 0 [] ch = "1" -> 1 [] ch = "2" -> 2 [] ch = "3" -> 3 [] ch = "4" -> 4
      [] ch = "5" -> 5 [] ch = "6" -> 6 [] ch = "7" -> 7 [] ch = "8" -> 8 [] OTHER -> 9

RECURSIVE ParseDigits(_, _)
ParseDigits(s, acc) ==
    IF Len(s) = 0 THEN acc ELSE ParseDigits(Tail(s), 10 * acc + DigitVal(s[1]))

\* strconv.Atoi: an optional sign and at least one digit; 0 and an error for
\* anything else.  (A number of so few digits is never out of range.)
Atoi(s) ==
    LET signed == Len(s) > 0 /\ s[1] \in {"+", "-"}
        body == IF signed THEN Tail(s) ELSE s
        ok == Len(body) > 0 /\ \A i \in 1..Len(body) : body[i] \in DigitChars
        n == ParseDigits(body, 0)
    IN  [val |-> IF ~ok THEN 0 ELSE IF signed /\ s[1] = "-" THEN 0 - n ELSE n,
         err |-> ~ok]

\* The test gone wrong: len(xy) >= 2.
IsPairOrMore(xy) == Len(xy) >= 2

\* if len(xy) == 2
IsPair(xy) == Len(xy) = 2

\* The body of the loop over the pairs: the points after the pair.
AppendPair(pts, pair) ==
    LET xy == Split(TrimSpace(pair), ",")
    IN  IF IsPair(xy)
        THEN Append(pts, [X |-> Atoi(TrimSpace(xy[1])).val,
                          Y |-> Atoi(TrimSpace(xy[2])).val])
        ELSE pts

RECURSIVE PointsFrom(_, _, _)
PointsFrom(pairs, i, pts) ==
    IF i > Len(pairs) THEN pts ELSE PointsFrom(pairs, i + 1, AppendPair(pts, pairs[i]))

toPoints(d) == PointsFrom(Split(d, " "), 1, << >>)

\* The call x.toPoints() of toValue.
ToPoints ==
    /\ ppc = "call"
    /\ points' = toPoints(data)
    /\ ppc' = "done"
    /\ UNCHANGED data
    /\ UNCHANGED loadVars

Chars == {"1", "-", "x", ",", " "}

Strings == UNION { [1..n -> Chars] : n \in 0..MaxLen }

InitPoints ==
    /\ data \in Strings
    /\ points = << >>
    /\ ppc = "call"

\* No Load is under way.
IdleLoad ==
    /\ m = MapOf(2, 2, << >>, << >>, NoFlags, << >>)
    /\ c = << >>
    /\ tsImages = << >>
    /\ pc = "idle"
    /\ cfg = [LayerOffset |-> 0, TileOffset |-> 0]
    /\ li = 0
    /\ x = 0
    /\ y = 0
    /\ layerOffset = 0
    /\ tileOffset = 0
    /\ texObjects = << >>
    /\ layers = << >>
    /\ placed = << >>

\* No toPoints is under way.
IdlePoints ==
    /\ data = << >>
    /\ points = << >>
    /\ ppc = "idle"

Init == InitLoad /\ IdlePoints

Next ==
    \/ LoadBegin
    \/ LayerBegin
    \/ CellEmpty
    \/ CellOmit
    \/ CellPlace
    \/ LayerEnd
    \/ LoadReturn

Spec == Init /\ [][Next]_vars

InitToPoints == InitPoints /\ IdleLoad

NextPoints == ToPoints

SpecPoints == InitToPoints /\ [][NextPoints]_vars

-----------------------------------------------------------------------------
(***************************************************************************)
(* What the properties below speak of.                                     *)
(***************************************************************************)
\* The configuration Load works with: c, or the defaults when c is nil.
LayerOffsetOf == IF c = << >> THEN DefaultLayerOffset ELSE c[1].LayerOffset
TileOffsetOf == IF c = << >> THEN DefaultTileOffset ELSE c[1].TileOffset

\* The tileset that owns a gid: the one of the greatest Firstgid among those
\* whose Firstgid does not exceed the gid's index.
OwnerOf(gid) ==
    CHOOSE i \in 1..Len(m.Tilesets) :
        /\ m.Tilesets[i].Firstgid <= gid.idx
        /\ \A j \in 1..Len(m.Tilesets) :
             m.Tilesets[j].Firstgid <= gid.idx =>
                m.Tilesets[j].Firstgid <= m.Tilesets[i].Firstgid

\* The base filename of a tileset's image: the last element of its path.
ImageName(ts) == ts.Source[Len(ts.Source)]

\* The cells that hold a tile, as <<layer, x, y>>, and those of them whose
\* tileset's image was given.
OccupiedCells ==
    { t \in (1..Len(m.Layers)) \X (0..(m.Width - 1)) \X (0..(m.Height - 1)) :
        <<t[2], t[3]>> \in DOMAIN m.Layers[t[1]].Tiles }

GidOf(t) == m.Layers[t[1]].Tiles[<<t[2], t[3]>>]

SuppliedCells ==
    { t \in OccupiedCells : ImageName(m.Tilesets[OwnerOf(GidOf(t))]) \in DOMAIN tsImages }

\* The cells Load has been through: the layers before li, and in layer li the
\* cells before (x, y), x being the outer loop.
Visited(t) ==
    \/ pc = "done"
    \/ pc \in {"layers", "cells", "panic"} /\ t[1] < li
    \/ pc \in {"cells", "panic"} /\ t[1] = li /\ (t[2] < x \/ (t[2] = x /\ t[3] < y))

PlacedCells == { <<placed[n].layer, placed[n].cx, placed[n].cy>> : n \in 1..Len(placed) }

RECURSIVE TilesIn(_, _)
TilesIn(objs, keys) ==
    IF keys = {} THEN 0
    ELSE LET k == CHOOSE k \in keys : TRUE
         IN  Len(objs[k].Mesh.Vertices) \div 6 + TilesIn(objs, keys \ {k})

RECURSIVE TilesOf(_, _)
TilesOf(result, names) ==
    IF names = {} THEN 0
    ELSE LET n == CHOOSE n \in names : TRUE
         IN  TilesIn(result[n], DOMAIN result[n]) + TilesOf(result, names \ {n})

DistinctNames ==
    \A i, j \in 1..Len(m.Layers) : m.Layers[i].Name = m.Layers[j].Name => i = j

\* The vertical coordinate of the n-th tile placed, and how many tiles of its
\* layer were placed before it.
YOf(n) == placed[n].verts[1][2]

RankOf(n) == Cardinality({ q \in 1..(n - 1) : placed[q].layer = placed[n].layer })

\* The sum of coordinate i of the six vertices of a tile.
Sum6(verts, i) ==
    verts[1][i] + verts[2][i] + verts[3][i] + verts[4][i] + verts[5][i] + verts[6][i]

IsPrefix(s, t) == Len(s) <= Len(t) /\ SubSeq(t, 1, Len(s)) = s

-----------------------------------------------------------------------------
\* C1: Load with images missing never fails; a tile is placed exactly when the
\* image of its tileset (under the base filename of its source) was given, so
\* every batch is one of a given image and, once Load is done, as many tiles
\* were placed as there are occupied cells of a tileset with a given image;
\* with layers of different names the result holds exactly those tiles.
ThmC1_MissingImagesOmitted ==
    /\ pc # "panic"
    /\ DOMAIN texObjects \subseteq DOMAIN tsImages
    /\ \A n \in DOMAIN layers : DOMAIN layers[n] \subseteq DOMAIN tsImages
    /\ PlacedCells = { t \in SuppliedCells : Visited(t) }
    /\ Len(placed) = Cardinality(PlacedCells)
    /\ pc = "done" =>
         /\ Len(placed) = Cardinality(SuppliedCells)
         /\ DistinctNames => TilesOf(layers, DOMAIN layers) = Cardinality(SuppliedCells)

WitC1_OneOfTwoImages ==
    /\ pc = "done"
    /\ DOMAIN tsImages = {"t1.png"}
    /\ Len(placed) > 0
    /\ Cardinality(OccupiedCells) > Len(placed)
    /\ \E n \in DOMAIN layers : DOMAIN layers[n] = {"t1.png"}

ThmC3_VerticalCoordinate ==
    /\ \A n \in 1..Len(placed) :
         \A i \in 1..6 :
            placed[n].verts[i][2] =
                0 - ((placed[n].layer - 1) * LayerOffsetOf) - (RankOf(n) * TileOffsetOf)
    /\ \A n \in 1..(Len(placed) - 1) :
         LET p == placed[n]
             q == placed[n + 1]
         IN  \/ p.layer < q.layer
             \/ p.layer = q.layer /\ p.cx < q.cx
             \/ p.layer = q.layer /\ p.cx = q.cx /\ p.cy < q.cy

WitC3_SecondLayerAfterEmptyLayer ==
    /\ Len(placed) = 3
    /\ placed[1].layer = 2
    /\ placed[3].gid.diag
    /\ placed[2].cx = 0 /\ placed[2].cy = 1
    /\ placed[3].cx = 1 /\ placed[3].cy = 0

\* C4: no two tiles of one Load lie at the same vertical coordinate, and
\* every tile of a later layer lies strictly below every tile of an earlier
\* layer.
CexC4_LayersNeverOverlap ==
    \A a, b \in 1..Len(placed) :
        a < b =>
            /\ YOf(a) # YOf(b)
            /\ placed[a].layer < placed[b].layer => YOf(b) < YOf(a)

\* C5 as claimed: the centre of a placed tile of cell (x, y) is at
\* x * tileWidth + tileWidth / 2 and (height - y) * tileHeight - tileHeight / 2,
\* tileWidth and tileHeight being the map's.
CexC5_CentreFromMapTileSize ==
    \A n \in 1..Len(placed) :
        LET p == placed[n]
        IN  /\ Sum6(p.verts, 1) = 6 * (2 * (p.cx * m.TileWidth) + m.TileWidth)
            /\ Sum6(p.verts, 3) = 6 * (2 * ((m.Height - p.cy) * m.TileHeight) - m.TileHeight)

\* C5 as amended: the centre of a placed tile of cell (x, y) is at
\* x * tileWidth + w / 2 and (height - y) * tileHeight - h / 2, tileWidth and
\* tileHeight being the map's and w, h the tile size of the tile's tileset,
\* whatever the flags of the tile.
ThmC5_CentreFromTilesetTileSize ==
    \A n \in 1..Len(placed) :
        LET p == placed[n]
            ts == m.Tilesets[OwnerOf(p.gid)]
        IN  /\ Sum6(p.verts, 1) = 6 * (2 * (p.cx * m.TileWidth) + ts.Width)
            /\ Sum6(p.verts, 3) = 6 * (2 * ((m.Height - p.cy) * m.TileHeight) - ts.Height)

WitC5_WideTurnedTile ==
    \E n \in 1..Len(placed) :
        /\ placed[n].gid.diag
        /\ placed[n].gid.idx = 4
        /\ placed[n].cx = 1
        /\ placed[n].cy = 1

\* C6 as claimed: when no tile is of a tileset with a given image, the result
\* of Load has no entry.
CexC6_EmptyResult ==
    (pc = "done" /\ SuppliedCells = {}) => DOMAIN layers = {}

\* C6 as amended: when no tile is of a tileset with a given image, the result
\* of Load has one entry for each layer name of the map, and each entry holds
\* no batch.
ThmC6_EmptyLayerEntries ==
    (pc = "done" /\ SuppliedCells = {}) =>
        /\ DOMAIN layers = { m.Layers[i].Name : i \in 1..Len(m.Layers) }
        /\ \A n \in DOMAIN layers : DOMAIN layers[n] = {}

WitC6_TwoLayersNoImage ==
    /\ pc = "done"
    /\ SuppliedCells = {}
    /\ OccupiedCells # {}
    /\ Len(m.Layers) = 2
    /\ Cardinality(DOMAIN layers) = 2

\* C7: the texture rectangle of a placed tile is its pixel rectangle over the
\* atlas size, drawn in by 1 / width on the two U edges and by 1 / height on
\* the two V edges, and lies strictly inside the unit square.
CexC7_InsetByAtlasSize ==
    \A n \in 1..Len(placed) :
        LET p == placed[n]
            w == tsImages[p.key].Dx
            h == tsImages[p.key].Dy
            u0 == (p.rect.MinX + 1) * h
            u1 == (p.rect.MaxX - 1) * h
            v0 == (p.rect.MinY + 1) * w
            v1 == (p.rect.MaxY - 1) * w
        IN  /\ p.uvs = << <<u0, v0>>, <<u0, v1>>, <<u1, v1>>,
                          <<u0, v0>>, <<u1, v1>>, <<u1, v0>> >>
            /\ 0 < u0 /\ u1 < w * h
            /\ 0 < v0 /\ v1 < w * h

\* The entries of a points list, and the fields of an entry.
EntriesOf(d) == Split(d, " ")

FieldsOf(e) == Split(TrimSpace(e), ",")

IsNumber(f) == ~Atoi(TrimSpace(f)).err

NumberOf(f) == Atoi(TrimSpace(f)).val

HasTwoFields(e) == Len(FieldsOf(e)) = 2

IsWellFormed(e) ==
    /\ Len(FieldsOf(e)) = 2
    /\ IsNumber(FieldsOf(e)[1])
    /\ IsNumber(FieldsOf(e)[2])

\* C8 as claimed: toPoints returns the points of the well-formed entries, in
\* their order, and no point for an entry with a coordinate that is no number.
CexC8_MalformedPointDropped ==
    ppc = "done" =>
        LET good == SelectSeq(EntriesOf(data), IsWellFormed)
        IN  points = [i \in 1..Len(good) |->
                        [X |-> NumberOf(FieldsOf(good[i])[1]),
                         Y |-> NumberOf(FieldsOf(good[i])[2])]]

\* C8 as amended: toPoints returns one point for each entry of exactly two
\* comma-separated fields, in their order, and none for any other entry; a
\* field that is a number gives its value, a field that is no number gives 0.
ThmC8_TwoFieldEntriesKept ==
    ppc = "done" =>
        LET kept == SelectSeq(EntriesOf(data), HasTwoFields)
            coord(f) == IF IsNumber(f) THEN NumberOf(f) ELSE 0
        IN  /\ Len(points) = Len(kept)
            /\ \A i \in 1..Len(kept) :
                 /\ points[i].X = coord(FieldsOf(kept[i])[1])
                 /\ points[i].Y = coord(FieldsOf(kept[i])[2])

WitC8_BadCoordinateReadAsZero ==
    /\ ppc = "done"
    /\ data = <<"x", ",", "1", " ", "-", "1", ",">>
    /\ points = << [X |-> 0, Y |-> 1], [X |-> -1, Y |-> 0] >>

\* The raw card of a tileset, its translation into cell (cx, cy), and the
\* primitives as maps of points.
RawCard(ts) == CardVertices(0 - ts.Width, ts.Width, 0 - ts.Height, ts.Height, 0)

Rot90(v) == TransformMat4(v, cw90)
RotN90(v) == TransformMat4(v, cwn90)
MirrorH(v) == TransformMat4(v, horizFlip)
MirrorV(v) == TransformMat4(v, vertFlip)

\* The case table: what becomes of a point of the raw card under the flags
\* (diagonal, horizontal, vertical); the innermost map is applied first.
TableOf(f, v) ==
    CASE ~f.diag /\ ~f.horiz /\ ~f.vert -> v
      [] ~f.diag /\ f.horiz /\ ~f.vert -> MirrorH(v)
      [] ~f.diag /\ ~f.horiz /\ f.vert -> MirrorV(v)
      [] ~f.diag /\ f.horiz /\ f.vert -> MirrorV(MirrorH(v))
      [] f.diag /\ ~f.horiz /\ ~f.vert -> MirrorH(Rot90(v))
      [] f.diag /\ f.horiz /\ ~f.vert -> Rot90(v)
      [] f.diag /\ ~f.horiz /\ f.vert -> RotN90(v)
      [] f.diag /\ f.horiz /\ f.vert -> Rot90(MirrorH(v))

Oriented(ts, f) == [i \in 1..6 |-> TransformMat4(RawCard(ts)[i], Flip(MakeGid(ts.Firstgid, f)))]

\* The eight flag combinations give eight different orientations of the card
\* of either tileset.
OrientationsDistinct ==
    \A ts \in {Tileset1, Tileset2} :
        \A f, g \in FlagSets :
            f # g => Oriented(ts, f) # Oriented(ts, g)

\* C9: the vertices of a placed tile are those of the raw card taken through
\* the case table of its flags and then moved into the tile's cell, the
\* factor that stands first in a product primitive * accumulated being the
\* one the vertices go through first; and the eight flag combinations turn
\* the card into eight different orientations.
ThmC9_FlipCaseTable ==
    /\ \A n \in 1..Len(placed) :
         LET p == placed[n]
             ts == m.Tilesets[OwnerOf(p.gid)]
             raw == RawCard(ts)
             dx == 2 * (p.cx * m.TileWidth) + ts.Width
             dz == 2 * ((m.Height - p.cy) * m.TileHeight) - ts.Height
         IN  \A i \in 1..6 :
                /\ p.verts[i][1] = TableOf(FlagsOf(p.gid), raw[i])[1] + dx
                /\ p.verts[i][3] = TableOf(FlagsOf(p.gid), raw[i])[3] + dz
                /\ p.verts[i][2] = p.verts[1][2]
    /\ OrientationsDistinct

WitC9_DiagonalOnlyTile ==
    \E n \in 1..Len(placed) :
        /\ placed[n].gid.diag
        /\ ~placed[n].gid.horiz
        /\ ~placed[n].gid.vert
        /\ placed[n].gid.idx = 4
        /\ placed[n].verts[1] # placed[n].verts[2]

\* The tiles of batch k of the current layer.
TilesInBatch(k) ==
    Cardinality({ n \in 1..Len(placed) : placed[n].layer = li /\ placed[n].key = k })

\* C10: a step of the cell loop leaves every vertex and texture coordinate a
\* batch already holds as it is; placing a tile gives the tile's batch
\* exactly 6 more of each and leaves the other batches alone; and a batch
\* always holds 6 vertices per tile placed in it and as many texture
\* coordinates.
ThmC10_BatchesAppendOnly ==
    [][ /\ (pc = "cells" /\ pc' = "cells") =>
             \A k \in DOMAIN texObjects :
                /\ k \in DOMAIN texObjects'
                /\ IsPrefix(texObjects[k].Mesh.Vertices, texObjects'[k].Mesh.Vertices)
                /\ IsPrefix(texObjects[k].Mesh.TexCoords, texObjects'[k].Mesh.TexCoords)
        /\ Len(placed') = Len(placed) + 1 =>
             LET key == placed'[Len(placed')].key
                 before == IF key \in DOMAIN texObjects
                           THEN Len(texObjects[key].Mesh.Vertices) ELSE 0
             IN  /\ Len(texObjects'[key].Mesh.Vertices) = before + 6
                 /\ Len(texObjects'[key].Mesh.TexCoords) = before + 6
                 /\ SubSeq(texObjects'[key].Mesh.Vertices, before + 1, before + 6)
                        = placed'[Len(placed')].verts
                 /\ \A k \in DOMAIN texObjects' \ {key} :
                        k \in DOMAIN texObjects /\ texObjects'[k] = texObjects[k]
        /\ (pc' = "cells") =>
             \A k \in DOMAIN texObjects' :
                /\ Len(texObjects'[k].Mesh.Vertices) = 6 * TilesInBatch(k)'
                /\ Len(texObjects'[k].Mesh.TexCoords) = Len(texObjects'[k].Mesh.Vertices)
      ]_vars

WitC10_TwoTilesInOneBatch ==
    \E k \in DOMAIN texObjects :
        /\ Len(texObjects[k].Mesh.Vertices) = 12
        /\ Len(texObjects[k].Mesh.TexCoords) = 12
        /\ SubSeq(texObjects[k].Mesh.Vertices, 1, 6) # SubSeq(texObjects[k].Mesh.Vertices, 7, 12)
        /\ Cardinality(DOMAIN texObjects) = 2

====
